---------------------------- MODULE Spec2Model ----------------------------
(***************************************************************************)
(* URL shortener: UrlService (createShortUrl, getOriginalUrl,              *)
(* getAnalytics) over the Url collection with its unique shortId index.    *)
(*                                                                         *)
(* Strings are sequences of one-character strings.  Every request handler  *)
(* is a process; a process takes one step per synchronous stretch of code  *)
(* between two awaits, and every store operation is one atomic step of the *)
(* database.  A store operation may fail (connection lost, timeout); an    *)
(* operation that fails has had no effect on the collection.               *)
(***************************************************************************)
EXTENDS Integers, Sequences, FiniteSets, TLC

(***************************************************************************)
(* Bounds of the model.                                                    *)
(***************************************************************************)
\* total number of service calls issued in one behaviour
MaxCalls == 3

\* concurrent request handlers
Procs == {"p1", "p2"}

\* sample of the nanoid alphabet the candidates are drawn from
IdChars == {"A", "B"}

(***************************************************************************)
(* Program constants.                                                      *)
(***************************************************************************)
maxAttempts == 5
IdLength == 8
ShortIdMinLength == 1
ShortIdMaxLength == 50
BaseUrl == <<"h", ":", "/", "/", "s">>

(***************************************************************************)
(* JavaScript values handed to the service: undefined, a non-string, or a  *)
(* string.                                                                 *)
(***************************************************************************)
Undefined == [type |-> "undefined", str |-> <<>>]
NotAString == [type |-> "number", str |-> <<>>]
Str(s) == [type |-> "string", str |-> s]

Whitespace == {" "}
Letters == {"a", "b", "n", "u", "h", "s"}

\* !v : undefined and the empty string are falsy (the number is non-zero)
Falsy(v) == v.type = "undefined" \/ (v.type = "string" /\ v.str = <<>>)

RECURSIVE TrimStart(_)
TrimStart(s) ==
  IF s # <<>> /\ Head(s) \in Whitespace THEN TrimStart(Tail(s)) ELSE s

RECURSIVE TrimEnd(_)
TrimEnd(s) ==
  IF s # <<>> /\ s[Len(s)] \in Whitespace
    THEN TrimEnd(SubSeq(s, 1, Len(s) - 1))
    ELSE s

\* String.prototype.trim
Trim(s) == TrimEnd(TrimStart(s))

\* new URL(s) succeeds: after stripping surrounding spaces the string starts
\* with a scheme (a letter, then letters) followed by ":"; a string without a
\* scheme has no base to resolve against and throws.
ParsesAsUrl(s) ==
  LET t == Trim(s)
  IN \E i \in 2..Len(t) : t[i] = ":" /\ \A j \in 1..(i - 1) : t[j] \in Letters

\* identifiers one character short
NanoidShort(size) == {[i \in 1..(size - 1) |-> c] : c \in IdChars}

\* nanoid(size): size characters of the alphabet
Nanoid(size) == {[i \in 1..size |-> c] : c \in IdChars}

(***************************************************************************)
(* The Url collection.                                                     *)
(***************************************************************************)
\* new Url({originalUrl, shortId, clickCount}) : schema setters trim both
\* strings, createdAt defaults to Date.now
NewUrl(url, sid, count, t) ==
  [originalUrl |-> Trim(url), shortId |-> Trim(sid),
   clickCount |-> count, createdAt |-> t]

\* schema validation run by save()
SchemaValid(doc) ==
  /\ doc.originalUrl # <<>>
  /\ ParsesAsUrl(doc.originalUrl)
  /\ doc.shortId # <<>>
  /\ Len(doc.shortId) >= ShortIdMinLength
  /\ Len(doc.shortId) <= ShortIdMaxLength
  /\ doc.clickCount >= 0

\* positions of the documents matching {shortId: sid}
Matching(st, sid) == {i \in 1..Len(st) : st[i].shortId = sid}

\* a query that matches no document
FindOneMisses(st, sid) == 0

\* findOne({shortId}) : position of the first match, 0 for null
FindOne(st, sid) ==
  IF Matching(st, sid) = {} THEN 0
  ELSE CHOOSE i \in Matching(st, sid) : \A j \in Matching(st, sid) : i <= j

\* the collection without its unique index
DuplicateKeyNoIndex(st, doc) == FALSE

\* the unique index on shortId rejects an insert of a stored shortId (E11000)
DuplicateKey(st, doc) == Matching(st, doc.shortId) # {}

\* insert of a document the index accepts
Insert(st, doc) == Append(st, doc)

\* {$set: {clickCount: 1}} for {$inc: {clickCount: 1}}
IncClickCountSet(st, i) ==
  [st EXCEPT ![i] = [@ EXCEPT !.clickCount = 1]]

\* the increment applied to every document (updateMany without the filter)
IncClickCountAll(st, i) ==
  [j \in 1..Len(st) |-> [st[j] EXCEPT !.clickCount = @ + 1]]

\* {$inc: {clickCount: -1}}
IncClickCountDown(st, i) ==
  [st EXCEPT ![i] = [@ EXCEPT !.clickCount = @ - 1]]

\* an update without operators: the document is replaced by {clickCount}
IncClickCountReplace(st, i) ==
  [st EXCEPT ![i] = [originalUrl |-> <<>>, shortId |-> <<>>,
                     clickCount |-> @.clickCount + 1, createdAt |-> 0]]

\* findOneAndUpdate({shortId}, {$inc: {clickCount: 1}}, {new: true}) on the
\* document at position i
IncClickCount(st, i) ==
  [st EXCEPT ![i] = [@ EXCEPT !.clickCount = @ + 1]]

(***************************************************************************)
(* State.                                                                  *)
(***************************************************************************)
VARIABLES
  store,        \* the Url collection, in insertion order
  now,          \* logical clock: calls issued so far (Date.now)
  pc,           \* where each handler stands
  op,           \* the service method a handler runs
  arg,          \* the argument the method was called with
  originalUrl,  \* createShortUrl: originalUrl after trim
  shortId,      \* createShortUrl: the candidate; lookups: the trimmed id
  attempts,     \* createShortUrl: attempts of the current invocation
  outcome,      \* what the call returned or threw
  hist,         \* history of the call, for the properties only
  resolved,     \* per shortId: getOriginalUrl calls that returned, for the
                \* properties only
  minted        \* shortIds createShortUrl has returned, for the properties
                \* only

vars ==
  <<store, now, pc, op, arg, originalUrl, shortId, attempts, outcome, hist,
    resolved, minted>>

NoValue ==
  [shortId |-> <<>>, shortUrl |-> <<>>, originalUrl |-> <<>>,
   clickCount |-> 0, createdAt |-> 0]

NoOutcome == [kind |-> "none", msg |-> "", value |-> NoValue]

Returned(v) == [kind |-> "ok", msg |-> "", value |-> v]

Thrown(k, m) == [kind |-> k, msg |-> m, value |-> NoValue]

\* no response sent (yet)
NoReply ==
  [status |-> 0, location |-> <<>>, value |-> NoValue,
   statusCode |-> 0, error |-> "",
   message |-> [isProduction \in BOOLEAN |-> ""]]

NoHist ==
  [generated |-> 0,    \* candidates generated for the logical request
   checks |-> 0,       \* existence checks issued
   hits |-> 0,         \* existence checks that found a record
   storeOps |-> 0,     \* store operations issued
   added |-> 0,        \* records the call added to the store
   changed |-> FALSE,  \* a step of the call changed the store
   faults |-> 0,       \* store operations of the call that failed
   allHit |-> TRUE,    \* every existence check so far found a record
   known |-> FALSE,    \* the shortId looked up was stored at the call
   overlap |-> FALSE,  \* another lookup of the same shortId was in flight
   lost |-> {}]        \* candidates whose insert failed on a duplicate key

Init ==
  /\ store = <<>>
  /\ now = 0
  /\ pc = [p \in Procs |-> "idle"]
  /\ op = [p \in Procs |-> "none"]
  /\ arg = [p \in Procs |-> Undefined]
  /\ originalUrl = [p \in Procs |-> <<>>]
  /\ shortId = [p \in Procs |-> <<>>]
  /\ attempts = [p \in Procs |-> 0]
  /\ outcome = [p \in Procs |-> NoOutcome]
  /\ hist = [p \in Procs |-> NoHist]
  /\ resolved = [s \in Nanoid(IdLength) |-> 0]
  /\ minted = {}

(***************************************************************************)
(* The HTTP boundary: routes, controller and central error handler.  What  *)
(* the controller does with the result of the service involves no store    *)
(* operation: the response is sent in the step in which the service call   *)
(* ends, and is a function of how it ended.                                *)
(***************************************************************************)
\* the methods class UrlController defines
ControllerMethods == {"createShortUrl", "redirectToUrl"}

\* urlRoutes: the routes and the controller property each is registered with
Routes ==
  {[method |-> "POST", path |-> "/shorten", handler |-> "createShortUrl"],
   [method |-> "GET", path |-> "/:shortId", handler |-> "redirectToUrl"],
   [method |-> "GET", path |-> "/analytics/:shortId", handler |-> "getAnalytics"]}

\* urlController.<handler> is a function
HasHandler(r) == r.handler \in ControllerMethods

\* errors the framework raises for a request before a handler runs: schema
\* validation, rate limit, unsupported content type, and an error that
\* carries no status code
FrameworkErrors ==
  {"FST_ERR_VALIDATION", "RateLimitExceeded", "FST_ERR_CTP_INVALID_MEDIA_TYPE",
   "Error"}

\* DatabaseError constructed with statusCode 400
ErrorStatusCodeClientFault(kind) ==
  CASE kind = "NotFoundError" -> 404
    [] kind = "ValidationError" -> 400
    [] kind = "DatabaseError" -> 400
    [] kind = "FST_ERR_VALIDATION" -> 400
    [] kind = "RateLimitExceeded" -> 429
    [] kind = "FST_ERR_CTP_INVALID_MEDIA_TYPE" -> 415
    [] OTHER -> 0

\* error.statusCode as the constructor of the error sets it; 0: not set
ErrorStatusCode(kind) ==
  CASE kind = "NotFoundError" -> 404
    [] kind = "ValidationError" -> 400
    [] kind = "DatabaseError" -> 500
    [] kind = "FST_ERR_VALIDATION" -> 400
    [] kind = "RateLimitExceeded" -> 429
    [] kind = "FST_ERR_CTP_INVALID_MEDIA_TYPE" -> 415
    [] OTHER -> 0

\* the error object the error handler receives
ErrorObject(out) ==
  [name |-> out.kind,
   statusCode |-> ErrorStatusCode(out.kind),
   validation |-> out.kind = "FST_ERR_VALIDATION",
   message |-> out.msg]

\* errorHandler getStatusCode
getStatusCode(error) ==
  IF error.statusCode # 0 THEN error.statusCode
  ELSE IF error.name = "NotFoundError" THEN 404
  ELSE IF error.name = "ValidationError" THEN 400
  ELSE IF error.name = "DatabaseError" THEN 500
  ELSE IF error.validation THEN 400
  ELSE IF error.statusCode = 429 THEN 429
  ELSE 500

\* every status named "Error"
getErrorNameGeneric(statusCode) == "Error"

\* errorHandler getErrorName
getErrorName(statusCode) ==
  CASE statusCode = 400 -> "Bad Request"
    [] statusCode = 404 -> "Not Found"
    [] statusCode = 429 -> "Too Many Requests"
    [] statusCode = 500 -> "Internal Server Error"
    [] OTHER -> "Error"

\* errorHandler sanitizeErrorMessage
sanitizeErrorMessage(error, statusCode, isProduction) ==
  IF isProduction /\ statusCode >= 500 THEN "Internal Server Error"
  ELSE IF error.validation THEN "Validation failed: " \o error.message
  ELSE IF error.message # "" THEN error.message
  ELSE getErrorName(statusCode)

\* setErrorHandler: reply.status(statusCode).send({statusCode, error, message})
\* config.isProduction is fixed when the process starts: the message is kept
\* for either setting
ErrorHandlerReply(error) ==
  LET statusCode == getStatusCode(error)
  IN [NoReply EXCEPT
        !.status = statusCode,
        !.statusCode = statusCode,
        !.error = getErrorName(statusCode),
        !.message = [isProduction \in BOOLEAN |->
                       sanitizeErrorMessage(error, statusCode, isProduction)]]

\* UrlController.createShortUrl: 201 with the result; errors are rethrown to
\* the error handler
CreateShortUrlReply(out) ==
  IF out.kind = "ok"
    THEN [NoReply EXCEPT !.status = 201, !.value = out.value]
    ELSE ErrorHandlerReply(ErrorObject(out))

\* the redirect sent as 301
RedirectToUrlReplyPermanent(out) ==
  IF out.kind = "ok"
    THEN [NoReply EXCEPT !.status = 301, !.location = out.value.originalUrl]
  ELSE IF out.kind = "NotFoundError"
    THEN [NoReply EXCEPT !.status = 404, !.statusCode = 404,
                         !.error = "Not Found", !.message = [isProduction \in BOOLEAN |-> out.msg]]
  ELSE ErrorHandlerReply(ErrorObject(out))

\* UrlController.redirectToUrl: 302 to the original URL, its own 404 body
\* for NotFoundError, other errors rethrown to the error handler
RedirectToUrlReply(out) ==
  IF out.kind = "ok"
    THEN [NoReply EXCEPT !.status = 302, !.location = out.value.originalUrl]
  ELSE IF out.kind = "NotFoundError"
    THEN [NoReply EXCEPT !.status = 404, !.statusCode = 404,
                         !.error = "Not Found", !.message = [isProduction \in BOOLEAN |-> out.msg]]
  ELSE ErrorHandlerReply(ErrorObject(out))

\* the response to a request, by the service method its handler called; no
\* handler calls getAnalytics
HandlerReply(o, out) ==
  CASE o = "createShortUrl" -> CreateShortUrlReply(out)
    [] o = "getOriginalUrl" -> RedirectToUrlReply(out)
    [] o = "rejected" -> ErrorHandlerReply(ErrorObject(out))
    [] OTHER -> NoReply


(***************************************************************************)
(* Arguments the callers pass.                                             *)
(***************************************************************************)
Pad(s) == <<" ">> \o s \o <<" ">>

UrlInputs ==
  {Undefined, NotAString, Str(<<>>), Str(<<" ">>), Str(<<"n", " ", "u">>),
   Str(Pad(<<"a", ":">>)), Str(<<"b", ":">>)}

ShortIdInputs ==
  {Undefined, NotAString, Str(<<>>), Str(<<" ">>), Str(<<"n">>)}
    \cup {Str(s) : s \in Nanoid(IdLength)}
    \cup {Str(Pad(s)) : s \in Nanoid(IdLength)}

(***************************************************************************)
(* UrlService.createShortUrl                                               *)
(***************************************************************************)
\* createShortUrl awaiting a promise that is never settled
CreateEntryNeverSettled(v) ==
  IF Falsy(v) \/ v.type # "string"
    THEN [pc |-> "done", url |-> <<>>,
          out |-> Thrown("ValidationError",
                         "Original URL is required and must be a string")]
  ELSE [pc |-> "pending", url |-> Trim(v.str), out |-> NoOutcome]

\* createShortUrl without the new URL(originalUrl) check
CreateEntryNoParse(v) ==
  IF Falsy(v) \/ v.type # "string"
    THEN [pc |-> "done", url |-> <<>>,
          out |-> Thrown("ValidationError",
                         "Original URL is required and must be a string")]
  ELSE [pc |-> "loop", url |-> Trim(v.str), out |-> NoOutcome]

\* lines 29-38: the checks on the argument, and the trim
CreateEntry(v) ==
  IF Falsy(v) \/ v.type # "string"
    THEN [pc |-> "done", url |-> <<>>,
          out |-> Thrown("ValidationError",
                         "Original URL is required and must be a string")]
  ELSE IF ~ParsesAsUrl(Trim(v.str))
    THEN [pc |-> "done", url |-> <<>>,
          out |-> Thrown("ValidationError", "Please provide a valid URL format")]
  ELSE [pc |-> "loop", url |-> Trim(v.str), out |-> NoOutcome]

\* the loop left one attempt early
LoopContinuesOneShort(a) == a < maxAttempts - 1

\* line 44: while (attempts < maxAttempts)
LoopContinues(a) == a < maxAttempts

\* if (attempts > maxAttempts)
ExhaustedOffByOne(a) == a > maxAttempts

\* the loop never gives up
ExhaustedNever(a) == FALSE

\* line 57: if (attempts >= maxAttempts)
Exhausted(a) == a >= maxAttempts

\* the comparison of line 85 turned round
MayRetryReversed(a) == a > maxAttempts

\* a retry only while no candidate of the call has been found taken
MayRetryFresh(a) == a = 0

\* line 85: if (attempts < maxAttempts)
MayRetry(a) == a < maxAttempts

\* a save whose document is written although the operation reports failure
SaveDocWriteThenFail(st, doc, fault) ==
  IF ~SchemaValid(doc) THEN [err |-> "ValidationError", store |-> st]
  ELSE IF DuplicateKey(st, doc) THEN [err |-> "E11000", store |-> st]
  ELSE IF fault THEN [err |-> "fault", store |-> Insert(st, doc)]
  ELSE [err |-> "none", store |-> Insert(st, doc)]

\* a save that overwrites the record holding the shortId
SaveDocUpsert(st, doc, fault) ==
  IF ~SchemaValid(doc) THEN [err |-> "ValidationError", store |-> st]
  ELSE IF fault THEN [err |-> "fault", store |-> st]
  ELSE IF DuplicateKey(st, doc)
    THEN [err |-> "none",
          store |-> [i \in 1..Len(st) |->
                       IF st[i].shortId = doc.shortId THEN doc ELSE st[i]]]
  ELSE [err |-> "none", store |-> Insert(st, doc)]

\* a save that fails after part of the document was written
SaveDocPartialWrite(st, doc, fault) ==
  IF ~SchemaValid(doc) THEN [err |-> "ValidationError", store |-> st]
  ELSE IF fault
    THEN [err |-> "fault",
          store |-> Insert(st, [doc EXCEPT !.originalUrl = <<>>])]
  ELSE IF DuplicateKey(st, doc) THEN [err |-> "E11000", store |-> st]
  ELSE [err |-> "none", store |-> Insert(st, doc)]

\* a save that keeps the record already stored for the URL
SaveDocDedupe(st, doc, fault) ==
  IF ~SchemaValid(doc) THEN [err |-> "ValidationError", store |-> st]
  ELSE IF fault THEN [err |-> "fault", store |-> st]
  ELSE IF \E i \in 1..Len(st) : st[i].originalUrl = doc.originalUrl
    THEN [err |-> "none", store |-> st]
  ELSE IF DuplicateKey(st, doc) THEN [err |-> "E11000", store |-> st]
  ELSE [err |-> "none", store |-> Insert(st, doc)]

\* urlDocument.save(): schema validation, then the insert under the unique
\* index; fault: the store fails the operation
SaveDoc(st, doc, fault) ==
  IF ~SchemaValid(doc) THEN [err |-> "ValidationError", store |-> st]
  ELSE IF fault THEN [err |-> "fault", store |-> st]
  ELSE IF DuplicateKey(st, doc) THEN [err |-> "E11000", store |-> st]
  ELSE [err |-> "none", store |-> Insert(st, doc)]

\* shortUrl built without the "/" between base URL and shortId
CreateResultNoSlash(saved, sid) ==
  [NoValue EXCEPT !.shortId = saved.shortId,
                  !.shortUrl = BaseUrl \o sid,
                  !.originalUrl = saved.originalUrl]

\* lines 76-81: the value createShortUrl returns
CreateResult(saved, sid) ==
  [NoValue EXCEPT !.shortId = saved.shortId,
                  !.shortUrl = BaseUrl \o <<"/">> \o sid,
                  !.originalUrl = saved.originalUrl]

\* a caller invokes createShortUrl(v); runs to the first await
CreateShortUrl(p, v) ==
  /\ pc[p] = "idle"
  /\ now < MaxCalls
  /\ now' = now + 1
  /\ op' = [op EXCEPT ![p] = "createShortUrl"]
  /\ arg' = [arg EXCEPT ![p] = v]
  /\ pc' = [pc EXCEPT ![p] = CreateEntry(v).pc]
  /\ originalUrl' = [originalUrl EXCEPT ![p] = CreateEntry(v).url]
  /\ outcome' = [outcome EXCEPT ![p] = CreateEntry(v).out]
  /\ attempts' = [attempts EXCEPT ![p] = 0]
  /\ shortId' = [shortId EXCEPT ![p] = <<>>]
  /\ hist' = [hist EXCEPT ![p] = NoHist]
  /\ UNCHANGED <<store, resolved, minted>>

\* lines 44-46: loop head and the next candidate
Generate(p) ==
  /\ pc[p] = "loop"
  /\ IF LoopContinues(attempts[p])
       THEN \E c \in Nanoid(IdLength) :
              /\ shortId' = [shortId EXCEPT ![p] = c]
              /\ pc' = [pc EXCEPT ![p] = "check"]
              /\ hist' = [hist EXCEPT ![p].generated = @ + 1]
       ELSE /\ pc' = [pc EXCEPT ![p] = "save"]
            /\ UNCHANGED <<shortId, hist>>
  /\ UNCHANGED <<store, now, op, arg, originalUrl, attempts, outcome, resolved, minted>>

\* lines 48-65: Url.findByShortId(shortId) and what the loop does with it
FindByShortId(p) ==
  /\ pc[p] = "check"
  /\ \E fault \in BOOLEAN :
       LET found == FindOne(store, shortId[p]) # 0
           a == attempts[p] + 1
           h == [hist[p] EXCEPT !.checks = @ + 1, !.storeOps = @ + 1]
       IN IF fault
            THEN /\ pc' = [pc EXCEPT ![p] = "done"]
                 /\ outcome' = [outcome EXCEPT ![p] =
                      Thrown("DatabaseError",
                             "Database error while checking Short ID uniqueness")]
                 /\ hist' = [hist EXCEPT ![p] =
                               [h EXCEPT !.faults = @ + 1, !.allHit = FALSE]]
                 /\ UNCHANGED attempts
          ELSE IF ~found
            THEN /\ pc' = [pc EXCEPT ![p] = "save"]
                 /\ hist' = [hist EXCEPT ![p] = [h EXCEPT !.allHit = FALSE]]
                 /\ UNCHANGED <<attempts, outcome>>
          ELSE /\ attempts' = [attempts EXCEPT ![p] = a]
               /\ hist' = [hist EXCEPT ![p] = [h EXCEPT !.hits = @ + 1]]
               /\ IF Exhausted(a)
                    THEN /\ pc' = [pc EXCEPT ![p] = "done"]
                         /\ outcome' = [outcome EXCEPT ![p] =
                              Thrown("DatabaseError",
                                     "Failed to generate unique Short ID after maximum attempts")]
                    ELSE /\ pc' = [pc EXCEPT ![p] = "loop"]
                         /\ UNCHANGED outcome
  /\ UNCHANGED <<store, now, op, arg, originalUrl, shortId, resolved, minted>>

\* lines 68-97: new Url(...).save(), the result, and the error handler with
\* its recursive call on a duplicate key
Save(p) ==
  /\ pc[p] = "save"
  /\ \E fault \in BOOLEAN :
       LET doc == NewUrl(originalUrl[p], shortId[p], 0, now)
           r == SaveDoc(store, doc, fault)
           again == CreateEntry(Str(originalUrl[p]))
           h == [hist[p] EXCEPT !.storeOps = @ + 1,
                                !.added = @ + (Len(r.store) - Len(store)),
                                !.changed = @ \/ r.store # store,
                                !.faults = @ + (IF r.err = "fault" THEN 1 ELSE 0),
                                !.lost = IF r.err = "E11000"
                                           THEN @ \cup {shortId[p]} ELSE @]
       IN /\ store' = r.store
          /\ hist' = [hist EXCEPT ![p] = h]
          /\ minted' = IF r.err = "none" THEN minted \cup {doc.shortId} ELSE minted
          /\ IF r.err = "none"
               THEN /\ pc' = [pc EXCEPT ![p] = "done"]
                    /\ outcome' = [outcome EXCEPT ![p] =
                                     Returned(CreateResult(doc, shortId[p]))]
                    /\ UNCHANGED <<originalUrl, attempts>>
             ELSE IF r.err = "E11000"
               THEN IF MayRetry(attempts[p])
                      THEN /\ pc' = [pc EXCEPT ![p] = again.pc]
                           /\ originalUrl' = [originalUrl EXCEPT ![p] = again.url]
                           /\ outcome' = [outcome EXCEPT ![p] = again.out]
                           /\ attempts' = [attempts EXCEPT ![p] = 0]
                      ELSE /\ pc' = [pc EXCEPT ![p] = "done"]
                           /\ outcome' = [outcome EXCEPT ![p] =
                                Thrown("DatabaseError",
                                       "Failed to create unique Short ID due to high collision rate")]
                           /\ UNCHANGED <<originalUrl, attempts>>
             ELSE IF r.err = "ValidationError"
               THEN /\ pc' = [pc EXCEPT ![p] = "done"]
                    /\ outcome' = [outcome EXCEPT ![p] =
                                     Thrown("ValidationError", "Url validation failed")]
                    /\ UNCHANGED <<originalUrl, attempts>>
             ELSE /\ pc' = [pc EXCEPT ![p] = "done"]
                  /\ outcome' = [outcome EXCEPT ![p] =
                                   Thrown("DatabaseError", "Failed to save URL to database")]
                  /\ UNCHANGED <<originalUrl, attempts>>
  /\ UNCHANGED <<now, op, arg, shortId, resolved>>

(***************************************************************************)
(* UrlService.getOriginalUrl                                               *)
(***************************************************************************)
\* the shortId trimmed before it is tested for emptiness
ShortIdRejectedTrimmed(v) ==
  Falsy(v) \/ v.type # "string" \/ Trim(v.str) = <<>>

\* lines 108 and 141: if (!shortId || typeof shortId !== 'string')
ShortIdRejected(v) == Falsy(v) \/ v.type # "string"

\* findOneAndUpdate with an empty filter: the first document is updated
FindOneAndUpdateNoFilter(st, sid) ==
  IF Len(st) = 0 THEN [found |-> 0, store |-> st]
  ELSE [found |-> 1, store |-> IncClickCount(st, 1)]

\* findOneAndUpdate with {upsert: true}: a missing document is created
FindOneAndUpdateUpsert(st, sid) ==
  LET i == FindOne(st, sid)
  IN IF i = 0
       THEN [found |-> Len(st) + 1,
             store |-> Append(st, [originalUrl |-> <<>>, shortId |-> sid,
                                   clickCount |-> 1, createdAt |-> 0])]
     ELSE [found |-> i, store |-> IncClickCount(st, i)]

\* Url.findOneAndUpdate({shortId}, {$inc: {clickCount: 1}}, {new: true}):
\* one atomic operation of the store on the matching document
FindOneAndUpdate(st, sid) ==
  LET i == FindOne(st, sid)
  IN IF i = 0 THEN [found |-> 0, store |-> st]
     ELSE [found |-> i, store |-> IncClickCount(st, i)]

\* a caller invokes getOriginalUrl(v); runs to the await
GetOriginalUrl(p, v) ==
  /\ pc[p] = "idle"
  /\ now < MaxCalls
  /\ now' = now + 1
  /\ op' = [op EXCEPT ![p] = "getOriginalUrl"]
  /\ arg' = [arg EXCEPT ![p] = v]
  /\ hist' = [hist EXCEPT ![p] =
                [NoHist EXCEPT !.known = /\ ~ShortIdRejected(v)
                                         /\ Matching(store, Trim(v.str)) # {}]]
  /\ IF ShortIdRejected(v)
       THEN /\ pc' = [pc EXCEPT ![p] = "done"]
            /\ outcome' = [outcome EXCEPT ![p] =
                 Thrown("ValidationError",
                        "Short ID is required and must be a string")]
            /\ shortId' = [shortId EXCEPT ![p] = <<>>]
       ELSE /\ pc' = [pc EXCEPT ![p] = "update"]
            /\ outcome' = [outcome EXCEPT ![p] = NoOutcome]
            /\ shortId' = [shortId EXCEPT ![p] = Trim(v.str)]
  /\ UNCHANGED <<store, originalUrl, attempts, resolved, minted>>

\* lines 112-130: the store runs findOneAndUpdate, the method returns
GetOriginalUrlUpdate(p) ==
  /\ pc[p] = "update"
  /\ pc' = [pc EXCEPT ![p] = "done"]
  /\ \E fault \in BOOLEAN :
       LET r == IF fault THEN [found |-> 0, store |-> store]
                ELSE FindOneAndUpdate(store, shortId[p])
           h == [hist[p] EXCEPT
                   !.storeOps = @ + 1,
                   !.added = @ + (Len(r.store) - Len(store)),
                   !.changed = @ \/ r.store # store,
                   !.faults = @ + (IF fault THEN 1 ELSE 0),
                   !.overlap = \E q \in Procs \ {p} :
                                  /\ pc[q] = "update"
                                  /\ shortId[q] = shortId[p]]
       IN /\ hist' = [hist EXCEPT ![p] = h]
          /\ IF fault
               THEN /\ outcome' = [outcome EXCEPT ![p] =
                         Thrown("DatabaseError",
                                "Failed to retrieve URL from database")]
                    /\ UNCHANGED <<store, resolved>>
             ELSE IF r.found = 0
               THEN /\ store' = r.store
                    /\ outcome' = [outcome EXCEPT ![p] =
                         Thrown("NotFoundError", "Short URL not found")]
                    /\ UNCHANGED resolved
             ELSE /\ store' = r.store
                  /\ outcome' = [outcome EXCEPT ![p] =
                       Returned([NoValue EXCEPT
                                   !.originalUrl = r.store[r.found].originalUrl])]
                  /\ resolved' = [resolved EXCEPT ![shortId[p]] = @ + 1]
  /\ UNCHANGED <<now, op, arg, originalUrl, shortId, attempts, minted>>

(***************************************************************************)
(* UrlService.getAnalytics                                                 *)
(***************************************************************************)
\* lines 152-157: the value getAnalytics returns
AnalyticsResult(doc) ==
  [NoValue EXCEPT !.shortId = doc.shortId,
                  !.originalUrl = doc.originalUrl,
                  !.clickCount = doc.clickCount,
                  !.createdAt = doc.createdAt]

\* getAnalytics reading through the counting lookup
FindAnalyticsCounting(st, sid) ==
  LET i == FindOne(st, sid)
  IN IF i = 0 THEN [found |-> 0, store |-> st]
     ELSE [found |-> i, store |-> IncClickCount(st, i)]

\* Url.findOne({shortId: ...}): a read, the collection stays as it is
FindAnalytics(st, sid) == [found |-> FindOne(st, sid), store |-> st]

\* a caller invokes getAnalytics(v); runs to the await
GetAnalytics(p, v) ==
  /\ pc[p] = "idle"
  /\ now < MaxCalls
  /\ now' = now + 1
  /\ op' = [op EXCEPT ![p] = "getAnalytics"]
  /\ arg' = [arg EXCEPT ![p] = v]
  /\ hist' = [hist EXCEPT ![p] =
                [NoHist EXCEPT !.known = /\ ~ShortIdRejected(v)
                                         /\ Matching(store, Trim(v.str)) # {}]]
  /\ IF ShortIdRejected(v)
       THEN /\ pc' = [pc EXCEPT ![p] = "done"]
            /\ outcome' = [outcome EXCEPT ![p] =
                 Thrown("ValidationError",
                        "Short ID is required and must be a string")]
            /\ shortId' = [shortId EXCEPT ![p] = <<>>]
       ELSE /\ pc' = [pc EXCEPT ![p] = "find"]
            /\ outcome' = [outcome EXCEPT ![p] = NoOutcome]
            /\ shortId' = [shortId EXCEPT ![p] = Trim(v.str)]
  /\ UNCHANGED <<store, originalUrl, attempts, resolved, minted>>

\* lines 145-164: the store runs findOne, the method returns
GetAnalyticsFind(p) ==
  /\ pc[p] = "find"
  /\ pc' = [pc EXCEPT ![p] = "done"]
  /\ \E fault \in BOOLEAN :
       LET r == IF fault THEN [found |-> 0, store |-> store]
                ELSE FindAnalytics(store, shortId[p])
       IN /\ store' = r.store
          /\ hist' = [hist EXCEPT ![p] =
                        [@ EXCEPT !.storeOps = @ + 1,
                                  !.added = @ + (Len(r.store) - Len(store)),
                                  !.changed = @ \/ r.store # store,
                                  !.faults = @ + (IF fault THEN 1 ELSE 0)]]
          /\ outcome' = [outcome EXCEPT ![p] =
               IF fault
                 THEN Thrown("DatabaseError",
                             "Failed to retrieve analytics from database")
               ELSE IF r.found = 0
                 THEN Thrown("NotFoundError", "Short URL not found")
               ELSE Returned(AnalyticsResult(r.store[r.found]))]
  /\ UNCHANGED <<now, op, arg, originalUrl, shortId, attempts, resolved, minted>>

(***************************************************************************)
(* The caller takes the result; the handler is free for the next request.  *)
(***************************************************************************)
Return(p) ==
  /\ pc[p] = "done"
  /\ pc' = [pc EXCEPT ![p] = "idle"]
  /\ op' = [op EXCEPT ![p] = "none"]
  /\ arg' = [arg EXCEPT ![p] = Undefined]
  /\ originalUrl' = [originalUrl EXCEPT ![p] = <<>>]
  /\ shortId' = [shortId EXCEPT ![p] = <<>>]
  /\ attempts' = [attempts EXCEPT ![p] = 0]
  /\ outcome' = [outcome EXCEPT ![p] = NoOutcome]
  /\ hist' = [hist EXCEPT ![p] = NoHist]
  /\ UNCHANGED <<store, now, resolved, minted>>

\* a request the framework turns down before any handler runs
Reject(p, k) ==
  /\ pc[p] = "idle"
  /\ now < MaxCalls
  /\ now' = now + 1
  /\ op' = [op EXCEPT ![p] = "rejected"]
  /\ pc' = [pc EXCEPT ![p] = "done"]
  /\ outcome' = [outcome EXCEPT ![p] = Thrown(k, "request refused")]
  /\ hist' = [hist EXCEPT ![p] = NoHist]
  /\ UNCHANGED <<store, arg, originalUrl, shortId, attempts, resolved, minted>>

Next ==
  \E p \in Procs :
    \/ \E v \in UrlInputs : CreateShortUrl(p, v)
    \/ Generate(p)
    \/ FindByShortId(p)
    \/ Save(p)
    \/ \E v \in ShortIdInputs : GetOriginalUrl(p, v)
    \/ GetOriginalUrlUpdate(p)
    \/ \E v \in ShortIdInputs : GetAnalytics(p, v)
    \/ GetAnalyticsFind(p)
    \/ \E k \in FrameworkErrors : Reject(p, k)
    \/ Return(p)

Spec == Init /\ [][Next]_vars

\* the continuation of a createShortUrl call after an await: it runs once the
\* store has answered
CallStep(p) == Generate(p) \/ FindByShortId(p) \/ Save(p)

\* what the writers pass: one URL, which decides nothing in the retry loop,
\* and one value that is refused
WriterInputs == {Undefined, Str(<<"b", ":">>)}

\* the service with createShortUrl as its only callers: the writers
Writers ==
  \E p \in Procs :
    \/ \E v \in WriterInputs : CreateShortUrl(p, v)
    \/ Generate(p)
    \/ FindByShortId(p)
    \/ Save(p)
    \/ Return(p)

\* the event loop runs every continuation that is ready
FairSpec ==
  Init /\ [][Writers]_vars /\ \A p \in Procs : WF_vars(CallStep(p))

(***************************************************************************)
(* Properties.                                                             *)
(***************************************************************************)
Done(p) == pc[p] = "done"

Creating(p) == op[p] = "createShortUrl"

Resolving(p) == op[p] = "getOriginalUrl"

Reading(p) == op[p] = "getAnalytics"

Ok(p) == outcome[p].kind = "ok"

\* the response sent for the request p has handled
Reply(p) == IF Done(p) THEN HandlerReply(op[p], outcome[p]) ELSE NoReply

\* inserts the call has issued: its store operations that are not checks
Inserts(p) == hist[p].storeOps - hist[p].checks

StoredIds == {store[i].shortId : i \in 1..Len(store)}

\* C1: no two stored records have the same shortId, and the shortId a
\* successful createShortUrl returns is the shortId of exactly one record,
\* the one it stored: it differs from the shortId of every other record.
C1_UniqueShortId ==
  /\ \A i, j \in 1..Len(store) : store[i].shortId = store[j].shortId => i = j
  /\ \A p \in Procs :
       Done(p) /\ Creating(p) /\ Ok(p)
         => Cardinality(Matching(store, outcome[p].value.shortId)) = 1

\* a create that lost an insert race, retried and stored its record next to
\* the winner's
C1_Witness ==
  \E p \in Procs :
    /\ Done(p) /\ Creating(p) /\ Ok(p)
    /\ Inserts(p) >= 2
    /\ Len(store) >= 2

\* C2: the stored clickCount of every record equals the number of
\* getOriginalUrl calls on its shortId that have returned, whatever their
\* interleaving: no increment is lost.
C2_NoLostUpdate ==
  \A i \in 1..Len(store) : store[i].clickCount = resolved[store[i].shortId]

\* two lookups of one shortId were in flight together and both returned
C2_Witness ==
  \E p, q \in Procs :
    /\ p # q
    /\ Done(p) /\ Resolving(p) /\ Ok(p)
    /\ Done(q) /\ Resolving(q) /\ Ok(q)
    /\ shortId[p] = shortId[q]
    /\ hist[p].overlap
    /\ \E i \in 1..Len(store) :
         store[i].shortId = shortId[p] /\ store[i].clickCount = 2

\* C3: one createShortUrl request generates at most maxAttempts candidates,
\* candidates of the retries after a duplicate-key failure included.
C3_SharedBudget ==
  \A p \in Procs : Creating(p) => hist[p].generated <= maxAttempts

\* C4: when each of the first maxAttempts existence checks of a call found
\* its candidate stored, the call has failed with the retries-exhausted
\* DatabaseError after exactly maxAttempts candidates and maxAttempts
\* checks, and has added no record.
C4_ExhaustedRetries ==
  \A p \in Procs :
    Creating(p) /\ hist[p].allHit /\ hist[p].hits >= maxAttempts
      => /\ Done(p)
         /\ outcome[p] =
              Thrown("DatabaseError",
                     "Failed to generate unique Short ID after maximum attempts")
         /\ hist[p].generated = maxAttempts
         /\ hist[p].checks = maxAttempts
         /\ hist[p].added = 0
         /\ ~hist[p].changed

\* a call whose five candidates were all taken
C4_Witness ==
  \E p \in Procs :
    /\ Done(p) /\ Creating(p)
    /\ hist[p].allHit /\ hist[p].hits = maxAttempts
    /\ outcome[p].kind = "DatabaseError"

\* C5: a createShortUrl call that has not returned a result has added no
\* record (so a failed call added none), and one that returned a result has
\* added exactly one.
C5_NoPartialState ==
  \A p \in Procs :
    Creating(p) => hist[p].added = (IF Done(p) /\ Ok(p) THEN 1 ELSE 0)

\* a call that failed after it had issued an insert
C5_Witness ==
  \E p \in Procs :
    /\ Done(p) /\ Creating(p) /\ ~Ok(p)
    /\ Inserts(p) >= 1
    /\ hist[p].added = 0

\* the arguments C6 names: missing, not a string, empty, whitespace only,
\* not a URL
InvalidUrlInputs ==
  {Undefined, NotAString, Str(<<>>), Str(<<" ">>), Str(<<"n", " ", "u">>)}

\* C6: createShortUrl with an invalid argument has failed with
\* ValidationError at the call, with no candidate generated, no store
\* operation issued and nothing written.
C6_InvalidInput ==
  \A p \in Procs :
    Creating(p) /\ arg[p] \in InvalidUrlInputs
      => /\ Done(p)
         /\ outcome[p].kind = "ValidationError"
         /\ hist[p].generated = 0
         /\ hist[p].storeOps = 0
         /\ hist[p].added = 0
         /\ ~hist[p].changed

\* every kind of invalid argument has been rejected, next to a stored record
C6_Witness ==
  /\ Len(store) >= 1
  /\ \E p \in Procs :
       /\ Done(p) /\ Creating(p)
       /\ arg[p] = Str(<<"n", " ", "u">>)
       /\ outcome[p].kind = "ValidationError"

\* C7: after createShortUrl(u) returned shortId s, a getOriginalUrl(s) that
\* is called later and that the store answers returns u trimmed.
C7_RoundTrip ==
  \A p, q \in Procs :
    /\ Done(p) /\ Creating(p) /\ Ok(p)
    /\ Done(q) /\ Resolving(q)
    /\ shortId[q] = outcome[p].value.shortId
    /\ hist[q].known
    /\ hist[q].faults = 0
    => /\ Ok(q)
       /\ outcome[q].value.originalUrl = Trim(arg[p].str)

\* the padded URL came back trimmed, with another record in the store
C7_Witness ==
  \E p, q \in Procs :
    /\ Done(p) /\ Creating(p) /\ Ok(p)
    /\ arg[p] = Str(Pad(<<"a", ":">>))
    /\ Done(q) /\ Resolving(q) /\ Ok(q)
    /\ shortId[q] = outcome[p].value.shortId
    /\ outcome[q].value.originalUrl = <<"a", ":">>
    /\ Len(store) >= 2

\* C8: no step of a getAnalytics call changes the store, whether the call
\* succeeds or fails.
C8_AnalyticsReadOnly ==
  [][\A p \in Procs :
       (Reading(p) \/ op'[p] = "getAnalytics") /\ pc'[p] # pc[p]
         => store' = store]_vars

\* getAnalytics returned the count of a clicked record
C8_Witness ==
  \E p \in Procs :
    /\ Done(p) /\ Reading(p) /\ Ok(p)
    /\ outcome[p].value.clickCount >= 1
    /\ ~hist[p].changed

\* C9: the step by which getOriginalUrl succeeds raises the clickCount of
\* the record with its shortId by exactly 1 and leaves every other field and
\* record, and the number of records, as they were.
C9_ResolveFrame ==
  [][\A p \in Procs :
       Resolving(p) /\ pc[p] = "update" /\ pc'[p] = "done"
         /\ outcome'[p].kind = "ok"
         => \E i \in 1..Len(store) :
              /\ store[i].shortId = shortId[p]
              /\ store' = [store EXCEPT ![i].clickCount = @ + 1]]_vars

\* a click on one of two records
C9_Witness ==
  \E p \in Procs :
    /\ Done(p) /\ Resolving(p) /\ Ok(p)
    /\ Len(store) = 2
    /\ \E i, j \in 1..Len(store) :
         /\ store[i].shortId = shortId[p] /\ store[i].clickCount = 1
         /\ i # j /\ store[j].clickCount = 0

\* C10: a getOriginalUrl or getAnalytics the store answered, for a shortId
\* no createShortUrl has returned, has failed with NotFound and changed
\* nothing; the store holds records only for shortIds createShortUrl
\* returned.
C10_NotFound ==
  /\ StoredIds \subseteq minted
  /\ \A p \in Procs :
       /\ Done(p) /\ (Resolving(p) \/ Reading(p))
       /\ ~ShortIdRejected(arg[p])
       /\ Trim(arg[p].str) \notin minted
       /\ hist[p].faults = 0
       => /\ outcome[p].kind = "NotFoundError"
          /\ hist[p].added = 0
          /\ ~hist[p].changed

\* both lookups failed for an unknown shortId while a record is stored
C10_Witness ==
  \E p, q \in Procs :
    /\ Done(p) /\ Resolving(p) /\ outcome[p].kind = "NotFoundError"
    /\ Done(q) /\ Reading(q) /\ outcome[q].kind = "NotFoundError"
    /\ Len(store) >= 1

\* C11: a duplicate-key failure of the insert never ends createShortUrl: the
\* call goes back to the loop; a call that failed has thrown ValidationError
\* or DatabaseError, and when the store answered all its operations the
\* DatabaseError is the retries-exhausted one.
C11_DuplicateKeyAbsorbed ==
  [][\A p \in Procs :
       /\ ( /\ pc[p] = "save" /\ pc'[p] # "save"
            /\ DuplicateKey(store, NewUrl(originalUrl[p], shortId[p], 0, now))
            /\ hist'[p].faults = hist[p].faults )
          => (pc'[p] = "loop" /\ outcome'[p] = NoOutcome)
       /\ ( op'[p] = "createShortUrl" /\ pc'[p] = "done"
            /\ outcome'[p].kind # "ok" )
          => /\ outcome'[p].kind \in {"ValidationError", "DatabaseError"}
             /\ hist'[p].faults = 0 /\ outcome'[p].kind = "DatabaseError"
                  => outcome'[p].msg =
                       "Failed to generate unique Short ID after maximum attempts"]_vars

\* a call is back in its loop after the insert of its candidate hit the index
C11_Witness ==
  \E p \in Procs :
    /\ Creating(p) /\ pc[p] = "loop"
    /\ Inserts(p) >= 1
    /\ hist[p].faults = 0

\* C12: every step leaves each clickCount a natural number that is at least
\* what it was, and a record that appears starts at 0.
C12_ClickCountMonotone ==
  [][\A i \in 1..Len(store') :
       /\ store'[i].clickCount \in Nat
       /\ i <= Len(store) => store'[i].clickCount >= store[i].clickCount
       /\ i > Len(store) => store'[i].clickCount = 0]_vars

\* a record clicked twice, all calls over
C12_Witness ==
  /\ \E i \in 1..Len(store) : store[i].clickCount = 2
  /\ \A p \in Procs : pc[p] = "idle"

\* C13: every step keeps every record, with its shortId, originalUrl and
\* createdAt; a lookup of a shortId that was stored when it was called never
\* ends in NotFound.
C13_RecordsPersist ==
  [][/\ \A i \in 1..Len(store) :
          /\ i <= Len(store')
          /\ store'[i].shortId = store[i].shortId
          /\ store'[i].originalUrl = store[i].originalUrl
          /\ store'[i].createdAt = store[i].createdAt
     /\ \A q \in Procs :
          pc'[q] = "done" /\ hist'[q].known
            => outcome'[q].kind # "NotFoundError"]_vars

\* a click and an analytics read of one stored shortId both succeeded
C13_Witness ==
  \E p, q \in Procs :
    /\ Done(p) /\ Resolving(p) /\ Ok(p) /\ hist[p].known
    /\ Done(q) /\ Reading(q) /\ Ok(q) /\ hist[q].known
    /\ shortId[p] = shortId[q]

\* C14: a successful createShortUrl returns the shortId and originalUrl of a
\* stored record, the originalUrl being its argument trimmed, and shortUrl =
\* baseUrl + "/" + shortId; stored records have no shortUrl field.
C14_CreateResult ==
  /\ \A i \in 1..Len(store) :
       DOMAIN store[i] = {"originalUrl", "shortId", "clickCount", "createdAt"}
  /\ \A p \in Procs :
       Done(p) /\ Creating(p) /\ Ok(p)
         => /\ \E i \in 1..Len(store) :
                 /\ store[i].shortId = outcome[p].value.shortId
                 /\ store[i].originalUrl = outcome[p].value.originalUrl
            /\ outcome[p].value.originalUrl = Trim(arg[p].str)
            /\ outcome[p].value.shortUrl
                 = BaseUrl \o <<"/">> \o outcome[p].value.shortId

\* the padded URL was stored at the first attempt and its result returned
C14_Witness ==
  \E p \in Procs :
    /\ Done(p) /\ Creating(p) /\ Ok(p)
    /\ arg[p] = Str(Pad(<<"a", ":">>))
    /\ hist[p].generated = 1
    /\ Len(outcome[p].value.shortUrl) = Len(BaseUrl) + 1 + IdLength

\* C15: the response to POST /shorten is 201 with the result when
\* createShortUrl returned, 400 when it threw ValidationError and 500 when it
\* threw DatabaseError; exhausted retries are never answered with a 4xx.
C15_ShortenStatus ==
  \A p \in Procs :
    Done(p) /\ Creating(p)
      => LET r == Reply(p)
         IN /\ r.status \in {201, 400, 500}
            /\ Ok(p) <=> r.status = 201
            /\ Ok(p) => r.value = outcome[p].value
            /\ outcome[p].kind = "ValidationError" <=> r.status = 400
            /\ outcome[p].kind = "DatabaseError" <=> r.status = 500
            /\ outcome[p].msg
                 = "Failed to generate unique Short ID after maximum attempts"
               => r.status \notin 400..499

\* one request was answered 500 after its retries ran out with no store
\* fault, next to one answered 201
C15_Witness ==
  \E p, q \in Procs :
    /\ Done(p) /\ Creating(p) /\ hist[p].faults = 0
    /\ outcome[p].kind = "DatabaseError"
    /\ hist[p].hits = maxAttempts
    /\ Reply(p).status = 500
    /\ Done(q) /\ Creating(q) /\ Ok(q) /\ Reply(q).status = 201

\* C16: the step that ends GET /:shortId answers 302 with the stored
\* originalUrl as location and adds one to that record's clickCount and to
\* nothing else, or answers 404 and leaves the collection as it was; when the
\* store answers, it is the former exactly when a record with the shortId
\* exists.
C16_Redirect ==
  [][\A p \in Procs :
       (op[p] = "getOriginalUrl" /\ pc[p] = "update" /\ pc'[p] = "done")
         => /\ outcome'[p].kind = "ok"
                 => /\ Reply(p)'.status = 302
                    /\ \E i \in 1..Len(store) :
                         /\ store[i].shortId = Trim(arg[p].str)
                         /\ Reply(p)'.location = store[i].originalUrl
                         /\ store' = [store EXCEPT ![i].clickCount = @ + 1]
            /\ outcome'[p].kind = "NotFoundError"
                 => /\ Reply(p)'.status = 404
                    /\ store' = store
            /\ hist'[p].faults = hist[p].faults
                 => IF Trim(arg[p].str) \in StoredIds
                      THEN outcome'[p].kind = "ok"
                      ELSE outcome'[p].kind = "NotFoundError"]_vars

\* one request was redirected to the URL of a clicked record, another was
\* answered 404
C16_Witness ==
  \E p, q \in Procs :
    /\ Done(p) /\ Resolving(p) /\ Reply(p).status = 302
    /\ \E i \in 1..Len(store) :
         /\ store[i].shortId = Trim(arg[p].str)
         /\ store[i].originalUrl = Reply(p).location
         /\ store[i].clickCount = 1
    /\ Done(q) /\ Resolving(q) /\ hist[q].faults = 0
    /\ outcome[q].kind = "NotFoundError" /\ Reply(q).status = 404

\* C17: when an analytics lookup has finished, the route
\* GET /analytics/:shortId has a handler, and the lookup is answered 200 with
\* shortId, originalUrl, clickCount and createdAt of the record, or 404 when
\* there is none.
C17_AnalyticsRoute ==
  \A p \in Procs :
    Done(p) /\ Reading(p)
      => /\ \A r \in Routes : r.path = "/analytics/:shortId" => HasHandler(r)
         /\ Ok(p) => /\ Reply(p).status = 200
                     /\ Reply(p).value = outcome[p].value
         /\ outcome[p].kind = "NotFoundError" => Reply(p).status = 404

\* the reason phrase of a status code
StatusText(n) ==
  CASE n = 400 -> "Bad Request"
    [] n = 404 -> "Not Found"
    [] n = 415 -> "Unsupported Media Type"
    [] n = 429 -> "Too Many Requests"
    [] n = 500 -> "Internal Server Error"
    [] OTHER -> ""

\* a response that reports an error
ErrorReply(p) == Done(p) /\ Reply(p).status >= 400

\* C18 as stated: every error response carries its own status as statusCode,
\* the standard name of that status as error, and a message.
C18_StandardErrorName ==
  \A p \in Procs :
    Done(p)
      => LET r == Reply(p)
         IN r.status >= 400
              => /\ r.statusCode = r.status
                 /\ r.error = StatusText(r.status)
                 /\ \A isProduction \in BOOLEAN : r.message[isProduction] # ""

\* C18: every error response carries its own status as statusCode and a
\* message; error is the standard name of the status when the status is 400,
\* 404, 429 or 500, and "Error" for any other status.
C18_ErrorBody ==
  \A p \in Procs :
    Done(p)
      => LET r == Reply(p)
         IN r.status >= 400
              => /\ r.statusCode = r.status
                 /\ \A isProduction \in BOOLEAN : r.message[isProduction] # ""
                 /\ r.error = IF r.status \in {400, 404, 429, 500}
                                THEN StatusText(r.status)
                                ELSE "Error"

\* the error handler answered 415 with the name "Error" while the redirect
\* handler answered its own 404
C18_Witness ==
  \E p, q \in Procs :
    /\ ErrorReply(p) /\ op[p] = "rejected"
    /\ Reply(p).status = 415 /\ Reply(p).error = "Error"
    /\ ErrorReply(q) /\ Resolving(q)
    /\ outcome[q].kind = "NotFoundError" /\ Reply(q).error = "Not Found"

\* the step in which the insert of p is answered by the store
InsertAnswered(p) ==
  /\ pc[p] = "save" /\ pc'[p] # "save"
  /\ hist'[p].faults = hist[p].faults

\* C19: when the insert fails on a duplicate key, the call starts over with
\* the same URL and its attempt counter at zero, whatever number of
\* candidates it has generated so far.
C19_RetryRestarts ==
  [][\A p \in Procs :
       (InsertAnswered(p) /\ shortId[p] \in StoredIds)
         => /\ pc'[p] = "loop"
            /\ attempts'[p] = 0
            /\ LoopContinues(attempts'[p])
            /\ originalUrl'[p] = originalUrl[p]
            /\ outcome'[p] = NoOutcome
            /\ hist'[p].generated = hist[p].generated]_vars

\* a call that lost an insert after an earlier candidate was found taken has
\* generated more than maxAttempts candidates and is still running
C19_Witness ==
  \E p \in Procs :
    /\ Creating(p) /\ ~Done(p)
    /\ hist[p].faults = 0
    /\ hist[p].lost # {}
    /\ hist[p].generated > maxAttempts

\* two calls have passed the existence check for the same candidate
Race(p, q) ==
  /\ p # q
  /\ Creating(p) /\ pc[p] = "save"
  /\ Creating(q) /\ pc[q] = "save"
  /\ shortId[p] = shortId[q]

\* C20: when the store answers an insert, the insert succeeds and the call
\* returns its candidate if no record holds the candidate, and fails on the
\* duplicate key with the collection unchanged otherwise; of two calls that
\* passed the existence check for the same candidate, the one answered first
\* leaves the candidate stored once and the other still to insert; a call
\* never returns a candidate it lost.
C20_InsertRace ==
  [][\A p \in Procs :
       /\ InsertAnswered(p)
            => /\ IF shortId[p] \in StoredIds
                    THEN /\ store' = store
                         /\ pc'[p] = "loop"
                         /\ shortId[p] \in hist'[p].lost
                    ELSE /\ store' = Append(store,
                                      NewUrl(originalUrl[p], shortId[p], 0, now))
                         /\ pc'[p] = "done"
                         /\ outcome'[p].kind = "ok"
                         /\ outcome'[p].value.shortId = shortId[p]
               /\ \A q \in Procs :
                    Race(p, q)
                      => /\ pc'[q] = "save"
                         /\ Cardinality(Matching(store', shortId[q])) = 1
                         /\ DuplicateKey(store',
                              NewUrl(originalUrl[q], shortId[q], 0, now'))
       /\ (pc'[p] = "done" /\ op'[p] = "createShortUrl" /\ outcome'[p].kind = "ok")
            => outcome'[p].value.shortId \notin hist'[p].lost]_vars

\* two calls have passed the check for the same candidate, which no record
\* holds, one of them after losing an earlier insert
C20_Witness ==
  \E p, q \in Procs :
    /\ Race(p, q)
    /\ shortId[p] \notin StoredIds
    /\ hist[p].lost # {}
    /\ hist[p].faults = 0 /\ hist[q].faults = 0

\* C21: under fair scheduling every createShortUrl call that is running
\* eventually completes, whatever the other calls insert meanwhile.
C21_CreateCompletes ==
  \A p \in Procs : (Creating(p) /\ ~Done(p)) ~> Done(p)

\* a call has completed after losing the insert of every candidate to a
\* concurrent writer, the store having answered all its operations
C21_Witness ==
  \E p \in Procs :
    /\ Done(p) /\ Creating(p)
    /\ hist[p].faults = 0
    /\ hist[p].lost = Nanoid(IdLength)

\* C22: an insert is attempted only right after an existence check of the
\* candidate that found no record; when the store answers the insert of a
\* call that has lost no insert and no record holds the candidate, the call
\* returns that candidate, and it has generated and checked one candidate
\* more than the k < maxAttempts it found stored.
C22_FirstFreeCandidate ==
  [][\A p \in Procs :
       /\ (pc'[p] = "save" /\ pc[p] # "save")
            => /\ pc[p] = "check"
               /\ shortId[p] \notin StoredIds
               /\ shortId'[p] = shortId[p]
       /\ (InsertAnswered(p) /\ hist[p].lost = {} /\ hist[p].faults = 0
             /\ shortId[p] \notin StoredIds)
            => /\ pc'[p] = "done"
               /\ outcome'[p].kind = "ok"
               /\ outcome'[p].value.shortId = shortId[p]
               /\ \E i \in 1..Len(store') : store'[i].shortId = shortId[p]
               /\ hist'[p].hits < maxAttempts
               /\ hist'[p].generated = hist'[p].hits + 1
               /\ hist'[p].checks = hist'[p].hits + 1]_vars

\* a call succeeded with its fifth candidate after four were found stored
C22_Witness ==
  \E p \in Procs :
    /\ Done(p) /\ Creating(p) /\ Ok(p)
    /\ hist[p].faults = 0 /\ hist[p].lost = {}
    /\ hist[p].hits = maxAttempts - 1
    /\ hist[p].generated = maxAttempts
    /\ outcome[p].value.shortId = shortId[p]

\* C23: a createShortUrl call that is about to insert has counted fewer than
\* maxAttempts attempts, so the handler of a duplicate key retries; no call
\* ends with the failure "... due to high collision rate".
C23_InsertBelowBudget ==
  \A p \in Procs :
    /\ pc[p] = "save" => /\ attempts[p] < maxAttempts
                         /\ MayRetry(attempts[p])
    /\ outcome[p].msg
         # "Failed to create unique Short ID due to high collision rate"

\* a call with maxAttempts - 1 attempts counted is about to insert a candidate
\* that another call has stored meanwhile
C23_Witness ==
  \E p \in Procs :
    /\ Creating(p) /\ pc[p] = "save"
    /\ attempts[p] = maxAttempts - 1
    /\ shortId[p] \in StoredIds
    /\ hist[p].faults = 0

\* C24: a createShortUrl call one of whose store operations failed has ended,
\* with DatabaseError, at that first failure, and has written no record and
\* generated no candidate after it.
C24_StoreFailureEndsCreate ==
  [][\A p \in Procs :
       (op'[p] = "createShortUrl" /\ hist'[p].faults > 0)
         => /\ pc'[p] = "done"
            /\ hist'[p].faults = 1
            /\ outcome'[p].kind = "DatabaseError"
            /\ outcome'[p].msg \in
                 {"Database error while checking Short ID uniqueness",
                  "Failed to save URL to database"}
            /\ hist'[p].added = 0
            /\ hist[p].faults = 0
                 => /\ store' = store
                    /\ hist'[p].generated = hist[p].generated
                    /\ hist'[p].storeOps = hist[p].storeOps + 1]_vars

\* one call ended on a failed existence check, another on a failed insert
\* after it had lost an earlier insert
C24_Witness ==
  \E p, q \in Procs :
    /\ Done(p) /\ Creating(p) /\ hist[p].faults = 1
    /\ outcome[p].msg = "Database error while checking Short ID uniqueness"
    /\ Done(q) /\ Creating(q) /\ hist[q].faults = 1
    /\ outcome[q].msg = "Failed to save URL to database"
    /\ hist[q].lost # {}

\* the step in which the store operation of the lookup of p ends
LookupAnswered(p) ==
  /\ op[p] \in {"getOriginalUrl", "getAnalytics"}
  /\ pc[p] \in {"update", "find"}
  /\ pc'[p] = "done"

\* C25: a lookup whose store operation failed ends with DatabaseError and
\* leaves the collection as it was; a lookup ends with NotFoundError only when
\* the store answered and no record holds the shortId.
C25_LookupFailure ==
  [][\A p \in Procs :
       LookupAnswered(p)
         => /\ hist'[p].faults > hist[p].faults
                 => /\ outcome'[p].kind = "DatabaseError"
                    /\ store' = store
            /\ outcome'[p].kind = "NotFoundError"
                 => /\ hist'[p].faults = hist[p].faults
                    /\ shortId[p] \notin StoredIds
                    /\ store' = store
            /\ outcome'[p].kind \in {"ok", "NotFoundError", "DatabaseError"}]_vars

\* a click and an analytics read of a stored shortId both ended with
\* DatabaseError, the record never clicked
C25_Witness ==
  \E p, q \in Procs :
    /\ Done(p) /\ Resolving(p) /\ hist[p].known /\ hist[p].faults = 1
    /\ outcome[p].kind = "DatabaseError"
    /\ Done(q) /\ Reading(q) /\ hist[q].known /\ hist[q].faults = 1
    /\ outcome[q].kind = "DatabaseError"
    /\ \A i \in 1..Len(store) : store[i].clickCount = 0

\* a finished lookup
LookedUp(p) == Done(p) /\ (Resolving(p) \/ Reading(p))

\* C26: a lookup called with a missing, empty or non-string shortId has ended
\* with ValidationError and no store operation; any other lookup has issued
\* one store operation for the trimmed shortId and, when the store answered,
\* has succeeded with the record of the trimmed shortId if there is one and
\* ended with NotFoundError when the trimmed shortId is empty.
C26_LookupArgument ==
  \A p \in Procs :
    LookedUp(p)
      => IF arg[p] \in {Undefined, NotAString, Str(<<>>)}
           THEN /\ outcome[p].kind = "ValidationError"
                /\ hist[p].storeOps = 0
           ELSE /\ hist[p].storeOps = 1
                /\ shortId[p] = Trim(arg[p].str)
                /\ hist[p].faults = 0
                     => /\ Ok(p)
                             => \E i \in 1..Len(store) :
                                  /\ store[i].shortId = Trim(arg[p].str)
                                  /\ store[i].originalUrl
                                       = outcome[p].value.originalUrl
                        /\ hist[p].known => Ok(p)
                        /\ Trim(arg[p].str) = <<>>
                             => outcome[p].kind = "NotFoundError"

\* the padded shortId resolved the record, a whitespace-only shortId ended in
\* NotFoundError
C26_Witness ==
  \E p, q \in Procs :
    /\ LookedUp(p) /\ Resolving(p) /\ Ok(p)
    /\ arg[p].str = Pad(shortId[p]) /\ shortId[p] \in StoredIds
    /\ LookedUp(q) /\ arg[q] = Str(<<" ">>) /\ hist[q].faults = 0
    /\ outcome[q].kind = "NotFoundError"

\* C27: every successful createShortUrl appends a record of its own, with a
\* shortId no record holds and clickCount 0, whether or not its URL is
\* stored already; records of one URL have different shortIds, and a step
\* that changes the clickCount of one leaves that of the other as it was.
C27_NoDeduplication ==
  [][/\ \A p \in Procs :
          (pc[p] = "save" /\ pc'[p] = "done" /\ outcome'[p].kind = "ok")
            => /\ Len(store') = Len(store) + 1
               /\ store'[Len(store')].originalUrl = originalUrl[p]
               /\ store'[Len(store')].shortId = outcome'[p].value.shortId
               /\ store'[Len(store')].shortId \notin StoredIds
               /\ store'[Len(store')].clickCount = 0
               /\ \A i \in 1..Len(store) : store'[i] = store[i]
     /\ \A i, j \in 1..Len(store) :
          (i # j /\ store[i].originalUrl = store[j].originalUrl)
            => /\ store[i].shortId # store[j].shortId
               /\ store'[i].clickCount # store[i].clickCount
                    => store'[j].clickCount = store[j].clickCount]_vars

\* two records of one URL, one of them clicked
C27_Witness ==
  \E i, j \in 1..Len(store) :
    /\ store[i].originalUrl = store[j].originalUrl
    /\ store[i].shortId # store[j].shortId
    /\ store[i].clickCount = 1
    /\ store[j].clickCount = 0

\* C28: every candidate of a createShortUrl call has IdLength = 8 characters,
\* and every stored shortId has 8 characters, within the 1 to 50 of the
\* schema.
C28_ShortIdLength ==
  /\ IdLength = 8
  /\ \A p \in Procs :
       (Creating(p) /\ pc[p] \in {"check", "save"}) => Len(shortId[p]) = IdLength
  /\ \A i \in 1..Len(store) :
       /\ Len(store[i].shortId) = IdLength
       /\ Len(store[i].shortId) \in ShortIdMinLength..ShortIdMaxLength

\* one candidate is stored and another is about to be inserted
C28_Witness ==
  \E p \in Procs :
    /\ Creating(p) /\ pc[p] = "save"
    /\ Len(shortId[p]) = 8
    /\ shortId[p] \notin StoredIds
    /\ Len(store) >= 1

=============================================================================
